---- MODULE Spec2Model ----
(***************************************************************************)
(* Model of package proctl (proctl_linux_amd64.go): a debug session over   *)
(* one ptrace-attached target.  The session's fields are the variables     *)
(* Regs, ProcessState, GoSymTable and BreakPoints; the target (its code    *)
(* memory, program counter and run state) and the OS-level operations the  *)
(* handlers issue are modelled next to them.                               *)
(***************************************************************************)
EXTENDS Integers, Sequences, FiniteSets, TLC

VARIABLES
    phase,         \* "init" | "live" | "failed" | "panicked" | "ended"
    Regs,          \* dbp.Regs: the program counter of the last register read
    ProcessState,  \* dbp.ProcessState: [kind, sig] of the last successful wait
    GoSymTable,    \* dbp.GoSymTable: set of function records ({} = not built)
    BreakPoints,   \* dbp.BreakPoints: function name -> BreakPoint
    mem,           \* target code memory: address -> byte
    orig,          \* the target's code as it was before the session touched it
    pc,            \* the target's real program counter
    tstate,        \* target: "running" | "stopped" | "exited" | "signalled"
    traced,        \* TRUE while the target is ptrace-attached to the session
    call,          \* the last call: [op, arg, err]
    issued         \* OS-level operations issued by the last call, in order

vars == <<phase, Regs, ProcessState, GoSymTable, BreakPoints, mem, orig, pc,
          tstate, traced, call, issued>>

(***************************************************************************)
(* Bounds and program constants                                            *)
(***************************************************************************)
\* number of bytes of target code the model follows
MemSize == 8
\* at most this many original code bytes are int3 padding bytes
MaxTraps == 1

Addr == 0 .. (MemSize - 1)

\* the amd64 trap instruction int3, the opcode 0xCC that line 92 spells out
INT3 == 204

\* the bytes of the original code: one-byte instructions, nop (0x90) or int3
OrigBytes == {144, INT3}

\* the bytes Break writes: the characters '0', 'x', 'C', 'C'
int3 == <<48, 120, 67, 67>>

\* the functions of the executable's Go symbol table: two functions; the
\* code past the last one (address 7 and on) belongs to no Go function
Funcs ==
    { [Name |-> "main.main",    Entry |-> 0, End |-> 4, Line |-> 10],
      [Name |-> "main.compute", Entry |-> 4, End |-> 7, Line |-> 20] }

FuncNames == {fn.Name : fn \in Funcs}

\* names a caller may pass to Break
Names == FuncNames \cup {"no_such_fn"}

EmptyMap == [x \in {} |-> x]

NoState == [kind |-> "none", sig |-> "none"]

Min(a, b) == IF a < b THEN a ELSE b

(***************************************************************************)
(* The symbol table's lookups (debug/gosym)                                *)
(***************************************************************************)
\* a lookup that falls back to some function when the name is unknown
LookupFuncAnyFallback(tab, fname) ==
    IF \E fn \in tab : fn.Name = fname
    THEN {fn \in tab : fn.Name = fname}
    ELSE {fn \in tab : \A g \in tab : fn.Entry <= g.Entry}

\* Table.LookupFunc: the function with exactly that name; {} models nil
LookupFunc(tab, fname) == {fn \in tab : fn.Name = fname}

\* Table.PCToLine: the function whose range holds pc; {} models a nil *Func
PCToLine(tab, p) == {fn \in tab : fn.Entry <= p /\ p < fn.End}

(***************************************************************************)
(* The target                                                              *)
(***************************************************************************)
Outcome(k, s, p) == [kind |-> k, sig |-> s, pc |-> p]

\* the target may be killed from outside at any point of a run
Killed(p) == Outcome("signalled", "SIGKILL", p)

\* one instruction executed under PTRACE_SINGLESTEP from address p, in code m
\* whose original bytes are o
StepOne(m, o, p) ==
    IF p >= MemSize THEN {Outcome("exited", "none", p)}
    ELSE IF m[p] = INT3 THEN {Outcome("stopped", "SIGTRAP", p + 1)}
    ELSE IF m[p] = o[p] THEN {Outcome("stopped", "SIGTRAP", p + 1)}
    ELSE \* bytes that are not the program's instruction: it faults, or it
         \* decodes as some 1..3 byte instruction
         {Outcome("stopped", "SIGSEGV", p)} \cup
         {Outcome("stopped", "SIGTRAP", Min(p + k, MemSize)) : k \in 1..3}

\* the target running under PTRACE_CONT from address p until it stops or ends
RECURSIVE Run(_, _, _)
Run(m, o, p) ==
    IF p >= MemSize THEN {Outcome("exited", "none", p)}
    ELSE IF m[p] = INT3 THEN {Outcome("stopped", "SIGTRAP", p + 1)}
    ELSE IF m[p] = o[p] THEN Run(m, o, p + 1)
    ELSE {Outcome("stopped", "SIGSEGV", p)} \cup
         UNION {Run(m, o, Min(p + k, MemSize)) : k \in 1..3}

\* a poke that lands one byte too far
PokeOffByOne(m, a, data) ==
    [x \in DOMAIN m |->
        IF a + 1 <= x /\ x < a + 1 + Len(data) THEN data[x - a] ELSE m[x]]

\* syscall.PtracePokeData: data copied over m from address a on
Poke(m, a, data) ==
    [x \in DOMAIN m |->
        IF a <= x /\ x < a + Len(data) THEN data[x - a + 1] ELSE m[x]]

\* a ptrace request reaches the target only while it is attached and stopped
Traceable == traced /\ tstate = "stopped"

(***************************************************************************)
(* Init: the state before NewDebugProcess is called                        *)
(***************************************************************************)
Init ==
    /\ phase = "init"
    /\ Regs = 0
    /\ ProcessState = NoState
    /\ GoSymTable = {}
    /\ BreakPoints = EmptyMap
    /\ mem \in {m \in [Addr -> OrigBytes] :
                    Cardinality({a \in Addr : m[a] = INT3}) <= MaxTraps}
    /\ orig = mem
    /\ pc = 0
    /\ tstate = "running"
    /\ traced = FALSE
    /\ call = [op |-> "none", arg |-> "", err |-> "nil"]
    /\ issued = <<>>

(***************************************************************************)
(* NewDebugProcess (with LoadInformation, findExecutable, obtainGoSymbols) *)
(***************************************************************************)
Called(op, arg, err) == [op |-> op, arg |-> arg, err |-> err]

\* the OS and library calls of session creation, in program order
NewSteps ==
    << "FindProcess", "PtraceAttach", "Wait", "Open", "NewFile",
       "Section.gosymtab", "Data.gosymtab", "Section.gopclntab",
       "Data.gopclntab", "Section.text", "NewTable" >>

\* steps whose failure is a nil *elf.Section, dereferenced by the next call
NilSection == {"Section.gosymtab", "Section.gopclntab", "Section.text"}

\* os.FindProcess cannot fail on Linux; every later step can
CanFail == {k \in 1..Len(NewSteps) : NewSteps[k] # "FindProcess"}

StepIndex(name) == CHOOSE k \in 1..Len(NewSteps) : NewSteps[k] = name

\* k = 0: every step succeeds; k > 0: step k is the first to fail.
\* dead: the target was killed before the first wait, which reports it.
NewDebugProcess ==
    /\ phase = "init"
    /\ \E k \in {0} \cup CanFail, p \in Addr, dead \in BOOLEAN :
        LET attached == k = 0 \/ k > StepIndex("PtraceAttach") IN
        /\ dead => k = StepIndex("Open")
        /\ issued' = IF k = 0 THEN NewSteps ELSE SubSeq(NewSteps, 1, k)
        /\ traced' = (attached /\ ~dead)
        /\ tstate' = IF dead THEN "signalled"
                     ELSE IF attached THEN "stopped" ELSE tstate
        /\ pc' = IF attached THEN p ELSE pc
        /\ IF k = 0
           THEN /\ phase' = "live"
                /\ Regs' = 0
                /\ ProcessState' = [kind |-> "stopped", sig |-> "SIGSTOP"]
                /\ GoSymTable' = Funcs
                /\ BreakPoints' = EmptyMap
                /\ call' = Called("NewDebugProcess", "", "nil")
           ELSE /\ phase' = IF NewSteps[k] \in NilSection
                            THEN "panicked" ELSE "failed"
                /\ call' = Called("NewDebugProcess", "",
                                  IF NewSteps[k] \in NilSection
                                  THEN "panic" ELSE "oserr")
                /\ UNCHANGED <<Regs, ProcessState, GoSymTable, BreakPoints>>
    /\ UNCHANGED <<mem, orig>>

(***************************************************************************)
(* Registers                                                               *)
(***************************************************************************)
Registers ==
    /\ phase = "live"
    /\ issued' = <<"PtraceGetRegs">>
    /\ \E ok \in BOOLEAN :
        /\ ok => Traceable
        /\ IF ok
           THEN /\ Regs' = pc
                /\ call' = Called("Registers", "", "nil")
           ELSE /\ Regs' = Regs
                /\ call' = Called("Registers", "", "Registers():")
    /\ UNCHANGED <<phase, ProcessState, GoSymTable, BreakPoints, mem, orig,
                   pc, tstate, traced>>

(***************************************************************************)
(* Break                                                                   *)
(***************************************************************************)
\* a duplicate check that never finds the entry
AlreadySetNever(bps, fname) == FALSE

\* _, ok := dbp.BreakPoints[fname]
AlreadySet(bps, fname) == fname \in DOMAIN bps

\* a BreakPoint that takes the end of the function for its address
NewBreakPointAtEnd(fn) ==
    [FunctionName |-> fn.Name, Line |-> fn.Line, Addr |-> fn.End]

\* the BreakPoint Break builds for fn
NewBreakPoint(fn) ==
    [FunctionName |-> fn.Name, Line |-> fn.Line, Addr |-> fn.Entry]

\* a map assignment made before the poke's error is looked at
RecordAlways(bps, fname, bp, ok) ==
    [x \in DOMAIN bps \cup {fname} |-> IF x = fname THEN bp ELSE bps[x]]

\* dbp.BreakPoints[fname] = breakpoint, reached only when the poke returned
\* no error (ok)
Record(bps, fname, bp, ok) ==
    IF ok
    THEN [x \in DOMAIN bps \cup {fname} |-> IF x = fname THEN bp ELSE bps[x]]
    ELSE bps

Break(fname) ==
    /\ phase = "live"
    /\ LET found == LookupFunc(GoSymTable, fname) IN
       IF found = {}
       THEN /\ call' = Called("Break", fname, "No function named")
            /\ issued' = <<>>
            /\ UNCHANGED <<BreakPoints, mem>>
       ELSE IF AlreadySet(BreakPoints, fname)
       THEN /\ call' = Called("Break", fname, "Breakpoint already set")
            /\ issued' = <<>>
            /\ UNCHANGED <<BreakPoints, mem>>
       ELSE \E fn \in found, ok \in BOOLEAN :
            /\ ok => Traceable
            /\ issued' = <<"PtracePokeData">>
            /\ mem' = IF ok THEN Poke(mem, fn.Entry, int3) ELSE mem
            /\ BreakPoints' = Record(BreakPoints, fname, NewBreakPoint(fn), ok)
            /\ call' = Called("Break", fname, IF ok THEN "nil" ELSE "oserr")
    /\ UNCHANGED <<phase, Regs, ProcessState, GoSymTable, orig, pc, tstate,
                   traced>>

(***************************************************************************)
(* handleResult, Step and Continue                                         *)
(***************************************************************************)
Terminated == {"exited", "signalled"}

\* the session's wait has already collected the target's termination
Reaped == ProcessState.kind \in Terminated

\* dbp.Process.Wait() as handleResult calls it: wait4 on the pid, which
\* reports the state out the target reached, or fails.  It fails with ECHILD
\* once the target's termination was collected by an earlier wait (reaped);
\* wok: it does not fail for another reason.
ProcessWait(reaped, out, wok) ==
    IF reaped \/ ~wok
    THEN [err |-> "oserr", ps |-> NoState]
    ELSE [err |-> "nil", ps |-> [kind |-> out.kind, sig |-> out.sig]]

\* the wait of handleResult returned no error
WaitOk(out, wok) == ProcessWait(Reaped, out, wok).err = "nil"

\* a handleResult that stores a state whether or not the wait failed
handleResultAlwaysAssign(out, wok) ==
    /\ pc' = out.pc
    /\ tstate' = out.kind
    /\ traced' = (traced /\ out.kind = "stopped")
    /\ ProcessState' = [kind |-> out.kind, sig |-> out.sig]

\* handleResult after a trace request that succeeded and let the target run
\* to outcome out: the blocking wait, then the assignment to ProcessState
\* when the wait returned no error.
handleResult(out, wok) ==
    /\ pc' = out.pc
    /\ tstate' = out.kind
    /\ traced' = (traced /\ out.kind = "stopped")
    /\ ProcessState' = IF WaitOk(out, wok)
                       THEN ProcessWait(Reaped, out, wok).ps
                       ELSE ProcessState

Step ==
    /\ phase = "live"
    /\ \E ok \in BOOLEAN :
        /\ ok => Traceable
        /\ IF ~ok
           THEN /\ issued' = <<"PtraceSingleStep">>
                /\ call' = Called("Step", "", "step failed: ")
                /\ UNCHANGED <<phase, Regs, ProcessState, pc, tstate, traced>>
           ELSE \E out \in StepOne(mem, orig, pc) \cup {Killed(pc)},
                   wok \in BOOLEAN, rok \in BOOLEAN :
                /\ handleResult(out, wok)
                /\ rok => (WaitOk(out, wok) /\ out.kind = "stopped")
                /\ IF ~WaitOk(out, wok)
                   THEN /\ issued' = <<"PtraceSingleStep", "Wait">>
                        /\ call' = Called("Step", "", "step failed: ")
                        /\ UNCHANGED <<phase, Regs>>
                   ELSE IF ~rok
                   THEN /\ issued' = <<"PtraceSingleStep", "Wait",
                                       "PtraceGetRegs">>
                        /\ call' = Called("Step", "", "Registers():")
                        /\ UNCHANGED <<phase, Regs>>
                   ELSE /\ issued' = <<"PtraceSingleStep", "Wait",
                                       "PtraceGetRegs">>
                        /\ Regs' = out.pc
                        /\ IF PCToLine(GoSymTable, out.pc) = {}
                           THEN \* fn.Name on a nil *Func
                                /\ phase' = "panicked"
                                /\ call' = Called("Step", "", "panic")
                           ELSE /\ phase' = phase
                                /\ call' = Called("Step", "", "nil")
    /\ UNCHANGED <<GoSymTable, BreakPoints, mem, orig>>

Continue ==
    /\ phase = "live"
    /\ \E ok \in BOOLEAN :
        /\ ok => Traceable
        /\ IF ~ok
           THEN /\ issued' = <<"PtraceCont">>
                /\ call' = Called("Continue", "", "oserr")
                /\ UNCHANGED <<ProcessState, pc, tstate, traced>>
           ELSE \E out \in Run(mem, orig, pc) \cup {Killed(pc)}, wok \in BOOLEAN :
                /\ handleResult(out, wok)
                /\ issued' = <<"PtraceCont", "Wait">>
                /\ call' = Called("Continue", "",
                                  IF WaitOk(out, wok) THEN "nil" ELSE "oserr")
    /\ UNCHANGED <<phase, Regs, GoSymTable, BreakPoints, mem, orig>>

(***************************************************************************)
(* The end of the debugger process.  The package has no detach: the kernel *)
(* releases the tracee when its tracer goes away, and a target that was    *)
(* stopped runs on freely.                                                 *)
(***************************************************************************)
TracerExit ==
    /\ phase \in {"live", "failed", "panicked"}
    /\ phase' = "ended"
    /\ traced' = FALSE
    /\ tstate' = IF tstate = "stopped" THEN "running" ELSE tstate
    /\ call' = Called("exit", "", "nil")
    /\ issued' = <<>>
    /\ UNCHANGED <<Regs, ProcessState, GoSymTable, BreakPoints, mem, orig, pc>>

Next ==
    \/ NewDebugProcess
    \/ Registers
    \/ \E fname \in Names : Break(fname)
    \/ Step
    \/ Continue
    \/ TracerExit

Spec == Init /\ [][Next]_vars

TypeOK ==
    /\ phase \in {"init", "live", "failed", "panicked", "ended"}
    /\ Regs \in 0..MemSize
    /\ pc \in 0..MemSize
    /\ tstate \in {"running", "stopped", "exited", "signalled"}
    /\ traced \in BOOLEAN
    /\ DOMAIN BreakPoints \subseteq FuncNames
    /\ DOMAIN mem = Addr

(***************************************************************************)
(* clear (spec section 4.4).  The package defines no clear operation and   *)
(* its BreakPoint has no field for the overwritten bytes; what a clear     *)
(* could write back is what the BreakPoint saved.                          *)
(***************************************************************************)
\* the bytes a BreakPoint saved at set time: the struct holds none
SavedBytes(bp) == IF "Saved" \in DOMAIN bp THEN bp.Saved ELSE <<>>

\* the saved bytes written back at the breakpoint's address
clear(m, bp) == Poke(m, bp.Addr, SavedBytes(bp))

\* the target stopped inside the bytes that Break wrote for bp
StoppedIn(bp) ==
    /\ tstate = "stopped"
    /\ bp.Addr <= pc
    /\ pc <= bp.Addr + Len(int3)
    /\ \E a \in Addr : bp.Addr <= a /\ a <= pc /\ mem[a] # orig[a]

(***************************************************************************)
(* Claims                                                                  *)
(***************************************************************************)

\* C1: at most one breakpoint exists per function name in every reachable
\* state, and a Break(f) called while the map already holds an entry for f
\* fails with "Breakpoint already set", issues no write to the target's
\* memory and leaves the map (and the memory) unchanged.
C1_DuplicateBreakRejected ==
    /\ [](\A f, g \in DOMAIN BreakPoints :
            BreakPoints[f].FunctionName = BreakPoints[g].FunctionName => f = g)
    /\ [][\A f \in Names :
            (call'.op = "Break" /\ call'.arg = f /\ f \in DOMAIN BreakPoints)
            => /\ call'.err = "Breakpoint already set"
               /\ issued' = <<>>
               /\ mem' = mem
               /\ BreakPoints' = BreakPoints]_vars

\* C1 witness: a Break on a function that already has a breakpoint was
\* rejected as a duplicate.
C1_Witness ==
    /\ call.op = "Break"
    /\ call.arg \in DOMAIN BreakPoints
    /\ call.err = "Breakpoint already set"

\* C2: for every name that is not in the symbol table, Break(name) fails with
\* the unknown-function error, issues no write to the target's memory, leaves
\* the breakpoint map as it was, and leaves the session live and unchanged.
C2_UnknownFunctionRejected ==
    [][\A f \in Names :
        (call'.op = "Break" /\ call'.arg = f
            /\ ~(\E fn \in GoSymTable : fn.Name = f))
        => /\ call'.err = "No function named"
           /\ issued' = <<>>
           /\ phase' = "live"
           /\ UNCHANGED <<BreakPoints, mem, Regs, ProcessState, GoSymTable,
                          pc, tstate, traced>>]_vars

\* C2 witness: Break of an unknown name failed on a fresh session, whose map
\* still has size 0.
C2_Witness ==
    /\ call.op = "Break"
    /\ call.arg \notin FuncNames
    /\ call.err = "No function named"
    /\ phase = "live"
    /\ Cardinality(DOMAIN BreakPoints) = 0

\* C3: a successful Break changes exactly one byte of the target's memory:
\* the byte at the function's entry address becomes the trap opcode 0xCC and
\* every other byte is unchanged.
C3_TrapWriteOneByte ==
    [][(call'.op = "Break" /\ call'.err = "nil")
        => \E fn \in LookupFunc(GoSymTable, call'.arg) :
              mem' = [mem EXCEPT ![fn.Entry] = INT3]]_vars

\* C4: breakpoint round trip: for every function f and every memory content,
\* a successful set(f) followed at once by clear(f) leaves the target's memory
\* byte for byte as it was before the set, the overwritten bytes having been
\* saved at set time and written back on clear.
C4_SetClearRoundTrip ==
    [][(call'.op = "Break" /\ call'.err = "nil")
        => clear(mem', BreakPoints'[call'.arg]) = mem]_vars

\* C5: after Continue reports a stop caused by the breakpoint set on f, the
\* session's program counter equals f's entry address (not entry + 1) and the
\* byte of target memory at that address is the original byte.
C5_BreakpointHitReport ==
    \A f \in DOMAIN BreakPoints :
        (call.op = "Continue" /\ call.err = "nil"
            /\ ProcessState.kind = "stopped" /\ StoppedIn(BreakPoints[f]))
        => /\ Regs = BreakPoints[f].Addr
           /\ mem[BreakPoints[f].Addr] = orig[BreakPoints[f].Addr]

\* C6: once the session has observed the target as Exited or Signalled, every
\* later Step or Continue fails with a process-exited error and issues no
\* trace operation against the dead target.
C6_NoTraceAfterExit ==
    [][(ProcessState.kind \in Terminated /\ call'.op \in {"Step", "Continue"})
        => /\ call'.err = "ProcessExited"
           /\ issued' = <<>>]_vars

\* C7: when the wait that follows the continue request reports that the
\* target terminated, Continue reports ProcessExited as a failure and does
\* not return success.
C7_ContinueReportsExit ==
    (call.op = "Continue" /\ issued = <<"PtraceCont", "Wait">>
        /\ ProcessState.kind \in Terminated)
    => call.err = "ProcessExited"

\* C8: detach ordering: whenever tracer ownership of a target is released,
\* every byte the session wrote into the target's code has been restored, so
\* no target runs on freely with a session's trap bytes in its code.
C8_RestoredBeforeRelease ==
    (phase = "ended" /\ tstate = "running") => mem = orig

\* C9: session creation is all or nothing and ordered: attach, wait,
\* executable load, symbol table build; a session is returned only if all of
\* them succeeded, and on the first failure NewDebugProcess returns an error
\* with no session and attempts no later step.
C9_CreationAllOrNothing ==
    call.op = "NewDebugProcess" =>
        /\ \E k \in 1..Len(NewSteps) : issued = SubSeq(NewSteps, 1, k)
        /\ (phase = "live") <=> (issued = NewSteps /\ call.err = "nil")
        /\ (phase = "live") => (GoSymTable = Funcs /\ traced)
        /\ (phase # "live") =>
              /\ phase = "failed"
              /\ call.err = "oserr"
              /\ GoSymTable = {}
              /\ BreakPoints = EmptyMap

\* C10: step-over protocol: whenever a Step or Continue that succeeds is
\* called while the target's program counter sits on the address of an
\* installed breakpoint, it restores the original byte there, single-steps,
\* writes the trap byte again and only then (for Continue) resumes, and the
\* trap is in memory at that address when the operation returns.
C10_StepOverProtocol ==
    [][\A f \in DOMAIN BreakPoints :
        (call'.op \in {"Step", "Continue"} /\ call'.err = "nil"
            /\ pc = BreakPoints[f].Addr)
        => /\ Len(issued') >= 3
           /\ SubSeq(issued', 1, 3)
                = <<"PtracePokeData", "PtraceSingleStep", "PtracePokeData">>
           /\ call'.op = "Continue" => "PtraceCont" \in
                {issued'[i] : i \in 4..Len(issued')}
           /\ mem'[BreakPoints[f].Addr] = INT3]_vars

\* C11: Step never crashes on an unresolvable address: when the target stops
\* after the single-step at a program counter outside every function of the
\* symbol table, Step returns normally (a result or an error value) and the
\* session stays usable.
C11_StepSurvivesUnknownPC ==
    (call.op = "Step" /\ ProcessState.kind = "stopped" /\ tstate = "stopped"
        /\ PCToLine(GoSymTable, pc) = {})
    => (phase = "live" /\ call.err # "panic")

\* C12: register snapshot freshness: after every Step or Continue that
\* returns successfully with the target stopped, the session's register
\* snapshot equals the target's registers at that stop.
C12_SnapshotFresh ==
    (call.op \in {"Step", "Continue"} /\ call.err = "nil"
        /\ ProcessState.kind = "stopped")
    => Regs = pc

\* C14: a trace-level failure is session-terminal: once a Step, Continue or
\* register read has failed at the OS level, every subsequent Step, Continue
\* or register read fails at once without issuing another trace operation.
C14_TraceFailureTerminal ==
    [][(call.op \in {"Step", "Continue", "Registers"}
            /\ call.err \notin {"nil", "panic"}
            /\ call'.op \in {"Step", "Continue", "Registers"})
        => (call'.err # "nil" /\ issued' = <<>>)]_vars

\* C15: when the wait that follows the single-step in Step reports that the
\* target terminated, Step signals ProcessExited and does not go on to read
\* the target's registers or to resolve a program counter.
C15_StepReportsExit ==
    (call.op = "Step" /\ Len(issued) >= 2 /\ ProcessState.kind \in Terminated)
    => /\ call.err = "ProcessExited"
       /\ \A i \in 1..Len(issued) : issued[i] # "PtraceGetRegs"

\* C20: a failed session creation does not leave the target attached: when
\* NewDebugProcess returns an error after the attach succeeded, the target
\* has been released from tracing by the time the error is returned.
C20_FailedCreationReleases ==
    (call.op = "NewDebugProcess" /\ phase = "failed") => ~traced

\* C13: the session's process state changes only as the result of a wait that
\* completed successfully: Break and Registers never change it, and a Step or
\* Continue whose trace operation fails or whose wait fails returns the error
\* and leaves the recorded process state as it was before the call.
C13_StateOnlyByWait ==
    [][LET last == IF issued' = <<>> THEN "" ELSE issued'[Len(issued')]
           waitFailed == call'.err # "nil" /\ last = "Wait"
       IN
       /\ call'.op \in {"Break", "Registers"} => ProcessState' = ProcessState
       /\ (call'.op \in {"Step", "Continue"} /\ call'.err # "nil"
             /\ last \in {"PtraceSingleStep", "PtraceCont", "Wait"})
          => ProcessState' = ProcessState
       /\ ProcessState' # ProcessState
          => /\ \E i \in 1..Len(issued') : issued'[i] = "Wait"
             /\ ~waitFailed]_vars

\* C13 witness: a Continue whose wait failed returned the error while the
\* target had terminated, and the recorded state is still the earlier stop.
C13_Witness ==
    /\ call.op = "Continue"
    /\ call.err = "oserr"
    /\ issued = <<"PtraceCont", "Wait">>
    /\ tstate \in Terminated
    /\ ProcessState.kind = "stopped"

C16_FailedPokeRecordsNothing ==
    [][/\ (call'.op = "Break" /\ call'.err = "oserr")
          => /\ issued' = <<"PtracePokeData">>
             /\ BreakPoints' = BreakPoints
             /\ call'.arg \notin DOMAIN BreakPoints'
       /\ (call'.op = "Break" /\ call'.arg \notin DOMAIN BreakPoints)
          => call'.err # "Breakpoint already set"]_vars

\* C16 witness: a Break of a known function failed in the poke and the map
\* has no entry for that function.
C16_Witness ==
    /\ call.op = "Break"
    /\ call.arg \in FuncNames
    /\ call.err = "oserr"
    /\ call.arg \notin DOMAIN BreakPoints

C19_MapMatchesMemory ==
    /\ [](\A f \in DOMAIN BreakPoints : \A i \in 1..Len(int3) :
            mem[BreakPoints[f].Addr + i - 1] = int3[i])
    /\ [][BreakPoints' # BreakPoints
            => /\ call'.op = "Break"
               /\ call'.err = "nil"
               /\ issued' = <<"PtracePokeData">>
               /\ call'.arg \notin DOMAIN BreakPoints
               /\ DOMAIN BreakPoints' = DOMAIN BreakPoints \cup {call'.arg}
               /\ \A x \in DOMAIN BreakPoints :
                     BreakPoints'[x] = BreakPoints[x]]_vars

\* C19 witness: with breakpoints recorded on both functions the target was
\* resumed and stopped again, the written bytes still in its memory.
C19_Witness ==
    /\ Cardinality(DOMAIN BreakPoints) = 2
    /\ call.op = "Continue"
    /\ call.err = "nil"
    /\ tstate = "stopped"
    /\ \A f \in DOMAIN BreakPoints : mem[BreakPoints[f].Addr] = int3[1]

====
